---- MODULE Spec2Model ----
(***************************************************************************)
(* DevEvent: the /api/events/[slug] route handlers (GET, PUT, DELETE) and  *)
(* GET /api/events/bookings against the Event and Booking collections      *)
(* (Spec), the connection cache of connectDB (SpecConn, SpecConnFair) and  *)
(* the client-side pagination of the listing pages (SpecPage).             *)
(*                                                                         *)
(* Every handler is an async function; it is modelled as a sequence of     *)
(* atomic steps, one per awaited access to the store or the image host.    *)
(* Strings that the code inspects character by character (the slug) are    *)
(* sequences of one-character strings.                                     *)
(***************************************************************************)
EXTENDS Integers, Sequences, FiniteSets, TLC

VARIABLES
    Event,      \* the Event collection: _id -> document
    Booking,    \* the Booking collection: eventId -> number of documents with that eventId
    req,        \* the requests being served: slot -> handler activation record
    cached,     \* lib/mongodb: the cached connection and the promise of one
    connects,   \* the calls made to mongoose.connect, in order: the state of each promise
    call,       \* the activations of connectDB: caller -> activation record
    page,       \* a listing page in the browser: its events and pagination state
    ui          \* the create form or the edit form in the browser

apiVars == <<Event, Booking, req>>
connVars == <<cached, connects, call>>
pageVars == <<page>>
uiVars == <<ui>>
vars == <<Event, Booking, req, cached, connects, call, page, ui>>

----------------------------------------------------------------------------
(* Bounds *)

MaxBookings == 2
MaxConnects == 3
MaxEvents == 25
MaxNotes == 2
MaxDeletes == 2
MaxRedirects == 1

Reqs == {"r1", "r2"}
EventIds == {"e1", "e2"}

----------------------------------------------------------------------------
(* Strings *)

WhiteSpace == {" "}

\* String.prototype.trim
RECURSIVE trimStart(_)
trimStart(s) ==
    IF s # <<>> /\ Head(s) \in WhiteSpace THEN trimStart(Tail(s)) ELSE s

RECURSIVE trimEnd(_)
trimEnd(s) ==
    IF s # <<>> /\ s[Len(s)] \in WhiteSpace
    THEN trimEnd(SubSeq(s, 1, Len(s) - 1))
    ELSE s

trim(s) == trimEnd(trimStart(s))

\* String.prototype.toLowerCase
lowerChar(c) == IF c = "A" THEN "a" ELSE c
toLowerCase(s) == [i \in 1..Len(s) |-> lowerChar(s[i])]

\* the slug trimmed but left in the caller's letter case
sanitizedSlug_noLowerCase(s) == trim(s)

\* const sanitizedSlug = slug.trim().toLowerCase();
sanitizedSlug(s) == toLowerCase(trim(s))

----------------------------------------------------------------------------
(* Route parameters *)

\* the slugs clients ask for: blank ones, the stored slugs as they are stored,
\* in other letter case and padded with blanks, and one no event has
SlugStrings ==
    { <<>>, <<" ">>, <<"a">>, <<" ", "A", " ">>, <<"a", "A">>, <<"b">> }

\* context.params.slug: a string, or something else
SlugParams ==
    {[type |-> "string", value |-> s] : s \in SlugStrings}
        \cup {[type |-> "undefined", value |-> <<>>],
              [type |-> "object", value |-> <<"a">>]}

\* the slug check without its trim
InvalidSlug_noTrim(p) ==
    \/ p.type = "undefined"
    \/ p.type = "string" /\ p.value = <<>>
    \/ p.type # "string"

\* !slug || typeof slug !== "string" || slug.trim() === ""
InvalidSlug(p) ==
    \/ p.type = "undefined"
    \/ p.type = "string" /\ p.value = <<>>
    \/ p.type # "string"
    \/ trim(p.value) = <<>>

----------------------------------------------------------------------------
(* Documents and collections *)

\* const fields = [...] : the scalar fields PUT copies from the form
fields == {"title", "description", "overview", "venue", "location",
           "date", "time", "mode", "audience", "organizer"}

\* every key PUT can put into updateData
UpdatableKeys == fields \cup {"tags", "agenda", "image"}

DocKeys == {"_id", "slug", "createdAt"} \cup UpdatableKeys

EventSlug(e) == IF e = "e1" THEN <<"a">> ELSE <<"a", "a">>

\* an event document as the create path left it
StoredEvent(e) ==
    [k \in DocKeys |->
        CASE k = "_id" -> e
          [] k = "slug" -> EventSlug(e)
          [] k = "createdAt" -> IF e = "e1" THEN 1 ELSE 2
          [] k \in {"tags", "agenda"} -> <<"t0">>
          [] k = "image" -> "https://img/0"
          [] OTHER -> "v0"]

NoDoc == [k \in {} |-> ""]

\* a lookup that compares the first character only
findOne_firstCharacter(coll, slug) ==
    IF \E e \in DOMAIN coll : coll[e].slug[1] = slug[1]
    THEN CHOOSE e \in DOMAIN coll : coll[e].slug[1] = slug[1]
    ELSE "null"

\* a lookup that falls back to any document when none matches
findOne_anyDocument(coll, slug) ==
    IF \E e \in DOMAIN coll : coll[e].slug = slug
    THEN CHOOSE e \in DOMAIN coll : coll[e].slug = slug
    ELSE IF DOMAIN coll # {} THEN CHOOSE e \in DOMAIN coll : TRUE
    ELSE "null"

\* Event.findOne({ slug }) : the _id of the matching document, or "null"
findOne(coll, slug) ==
    IF \E e \in DOMAIN coll : coll[e].slug = slug
    THEN CHOOSE e \in DOMAIN coll : coll[e].slug = slug
    ELSE "null"

\* an update that overwrites the whole allow-list, clearing what was not sent
applyUpdate_replaceAll(doc, updateData) ==
    [k \in DOMAIN doc |->
        IF k \in DOMAIN updateData THEN updateData[k]
        ELSE IF k \in {"tags", "agenda"} THEN <<>>
        ELSE IF k \in UpdatableKeys THEN ""
        ELSE doc[k]]

\* an update that keeps a field somebody has already edited
applyUpdate_firstWriterWins(doc, updateData) ==
    [k \in DOMAIN doc |->
        IF k \in DOMAIN updateData /\ doc[k] = StoredEvent(doc["_id"])[k]
        THEN updateData[k]
        ELSE doc[k]]

\* an update that derives the slug again from an edited title
applyUpdate_slugFromTitle(doc, updateData) ==
    [k \in DOMAIN doc |->
        IF k = "slug" /\ "title" \in DOMAIN updateData THEN <<"a">>
        ELSE IF k \in DOMAIN updateData THEN updateData[k]
        ELSE doc[k]]

\* the document Event.findOneAndUpdate(filter, updateData, { new: true }) leaves
applyUpdate(doc, updateData) ==
    [k \in DOMAIN doc |-> IF k \in DOMAIN updateData THEN updateData[k] ELSE doc[k]]

\* an update with upsert: it inserts a document when none matches
findOneAndUpdate_upsert(coll, slug, updateData) ==
    LET id == findOne(coll, slug)
    IN  IF id = "null"
        THEN IF DOMAIN coll = EventIds THEN coll
             ELSE LET new == CHOOSE e \in EventIds \ DOMAIN coll : TRUE
                  IN  (new :> applyUpdate(StoredEvent(new), updateData)) @@ coll
        ELSE [coll EXCEPT ![id] = applyUpdate(coll[id], updateData)]

\* Event.findOneAndUpdate({ slug }, updateData, { new: true })
findOneAndUpdate(coll, slug, updateData) ==
    LET id == findOne(coll, slug)
    IN  IF id = "null" THEN coll
        ELSE [coll EXCEPT ![id] = applyUpdate(coll[id], updateData)]

\* a count that ignores the filter
countDocuments_unfiltered(coll, eventId) == coll["e1"] + coll["e2"]

\* a count that stops at one
countDocuments_atMostOne(coll, eventId) == IF coll[eventId] > 0 THEN 1 ELSE 0

\* Booking.countDocuments({ eventId }) and the deletedCount of Booking.deleteMany({ eventId })
countDocuments(coll, eventId) == coll[eventId]

\* a delete without its filter: the bookings of every event go
deleteMany_everyEvent(coll, eventId) == [e \in DOMAIN coll |-> 0]

\* a delete of bookings that removes nothing
deleteMany_keepsBookings(coll, eventId) == coll

\* Booking.deleteMany({ eventId })
deleteMany(coll, eventId) == [coll EXCEPT ![eventId] = 0]

\* Event.findByIdAndDelete(id)
findByIdAndDelete(coll, id) == [e \in DOMAIN coll \ {id} |-> coll[e]]

----------------------------------------------------------------------------
(* Multipart form bodies *)

StringEntry(t) == [type |-> "string", text |-> t, size |-> 0, mime |-> ""]
FileEntry(n, m) == [type |-> "file", text |-> "", size |-> n, mime |-> m]
NoFile == [type |-> "null", text |-> "", size |-> 0, mime |-> ""]

\* formData.get(key)
formGet(form, key) == IF key \in DOMAIN form THEN form[key] ELSE NoFile

\* JSON.stringify of a list of strings, for the lists the model uses
JSONstringify(list) ==
    CASE list = <<"t0">> -> "[\"t0\"]"
      [] list = <<"r1">> -> "[\"r1\"]"
      [] list = <<"r2">> -> "[\"r2\"]"
      [] OTHER -> "[]"

\* JSON.parse: the value, or a SyntaxError
JSONparse(text) ==
    CASE text = "[\"t0\"]" -> [ok |-> TRUE, value |-> <<"t0">>]
      [] text = "[\"r1\"]" -> [ok |-> TRUE, value |-> <<"r1">>]
      [] text = "[\"r2\"]" -> [ok |-> TRUE, value |-> <<"r2">>]
      [] text = "[]" -> [ok |-> TRUE, value |-> <<>>]
      [] OTHER -> [ok |-> FALSE, value |-> <<>>]

\* `x as string` handed to JSON.parse: a File stringifies to "[object File]"
asString(entry) == IF entry.type = "string" THEN entry.text ELSE "[object File]"

\* truthiness of a form value: null and "" are falsy
truthy(entry) ==
    \/ entry.type = "file"
    \/ entry.type = "string" /\ entry.text # ""

\* the edit form's state for a user r who typed r into every field
formDataOf(r) ==
    [k \in UpdatableKeys |->
        IF k \in {"tags", "agenda"} THEN <<r>>
        ELSE IF k = "image" THEN "https://img/0"
        ELSE r]

\* EditEvent.handleSubmit: the FormData it sends
submitData(formData, imageFile) ==
    LET text == [k \in DOMAIN formData \ {"image"} |->
                    IF k \in {"tags", "agenda"}
                    THEN StringEntry(JSONstringify(formData[k]))
                    ELSE StringEntry(formData[k])]
    IN  IF imageFile # NoFile THEN ("image" :> imageFile) @@ text ELSE text

ImageFiles == {FileEntry(0, "image/png"), FileEntry(1, "image/png")}

\* the bodies a client r sends: the edit form's, and hand-made ones
Forms(r) ==
    {submitData(formDataOf(r), f) : f \in {FileEntry(1, "image/png"), NoFile}}
    \cup
    { NoDoc,
      "title" :> StringEntry(r),
      ("title" :> StringEntry(r)) @@ ("tags" :> StringEntry("[\"r"))
          @@ ("image" :> FileEntry(1, "image/png")),
      ("venue" :> StringEntry(r)) @@ ("tags" :> StringEntry(JSONstringify(<<r>>)))
          @@ ("agenda" :> FileEntry(1, "text/plain"))
          @@ ("image" :> FileEntry(1, "image/png")),
      ("title" :> FileEntry(1, "text/plain")) @@ ("venue" :> StringEntry(r))
          @@ ("tags" :> StringEntry("")) @@ ("image" :> FileEntry(0, "image/png")),
      "image" :> FileEntry(5 * 1024 * 1024 + 1, "image/png"),
      "image" :> FileEntry(1, "application/pdf") }

----------------------------------------------------------------------------
(* Thrown values and the handlers' catch blocks *)

\* a message is the sequence of its words
includes(message, word) == \E i \in 1..Len(message) : message[i] = word

\* a thrown value: whether it is an Error instance, its name, its message and
\* the words of its own enumerable properties (what JSON.stringify shows)
Err(name, message, enumerable) ==
    [isError |-> TRUE, name |-> name, message |-> message, enumerable |-> enumerable]

\* what a query on an open connection can throw
QueryThrown ==
    { Err("MongoNetworkError", <<"connection", "closed">>, <<>>),
      Err("ValidationError", <<"Validation", "failed">>, <<"errors">>),
      Err("ValidationError", <<"title", "required">>, <<"errors", "title">>),
      Err("MongoServerError", <<"not", "primary">>, <<"errmsg", "not", "primary">>) }

\* what connectDB or the first query can throw
Thrown ==
    { Err("MongoNetworkError", <<"connection", "closed">>, <<>>),
      Err("Error", <<"connect", "ECONNREFUSED">>, <<"code", "ECONNREFUSED">>),
      Err("MongooseServerSelectionError", <<"getaddrinfo", "ENOTFOUND">>, <<"reason">>),
      Err("CastError", <<"Cast", "failed">>, <<"path", "slug">>),
      Err("ValidationError", <<"Validation", "failed">>, <<"errors">>),
      [isError |-> FALSE, name |-> "", message |-> <<"connection">>,
       enumerable |-> <<"connection">>] }

\* what the image host's callback can reject with
UploadThrown ==
    { [isError |-> FALSE, name |-> "Error", message |-> <<"Invalid", "image", "file">>,
       enumerable |-> <<"message", "Invalid", "image", "file">>],
      Err("Error", <<"connect", "ECONNREFUSED">>, <<"code", "ECONNREFUSED">>) }

NoError == [isError |-> FALSE, name |-> "none", message |-> <<>>, enumerable |-> <<>>]

Response(status, error) ==
    [status |-> status, error |-> error, details |-> <<>>,
     event |-> NoDoc, deletedBookingsCount |-> -1,
     message |-> "", events |-> <<>>, errorJSON |-> <<>>]

NoResponse == Response(0, "")

isConnectionError(e) ==
    e.isError /\ (includes(e.message, "connection") \/ includes(e.message, "ECONNREFUSED"))

\* a catch block that answers 400 to a ValidationError only
catchQuery_castErrorIs500(e, generic) ==
    IF isConnectionError(e) THEN Response(503, "Database connection failed")
    ELSE IF e.isError /\ e.name = "ValidationError"
    THEN Response(400, "Invalid query parameter")
    ELSE Response(500, generic)

\* the catch block of GET and of DELETE
catchQuery(e, generic) ==
    IF isConnectionError(e) THEN Response(503, "Database connection failed")
    ELSE IF e.isError /\ e.name \in {"CastError", "ValidationError"}
    THEN Response(400, "Invalid query parameter")
    ELSE Response(500, generic)

catchGET(e) == catchQuery(e, "An unexpected error occurred while fetching the event")

catchDELETE(e) == catchQuery(e, "An unexpected error occurred while deleting the event")

catchPUT(e) ==
    IF isConnectionError(e) THEN Response(503, "Database connection failed")
    ELSE IF e.isError /\ e.name = "ValidationError"
    THEN [Response(400, "Validation failed") EXCEPT !.details = e.message]
    ELSE Response(500, "An unexpected error occurred while updating the event")

\* JSON.stringify of a caught value: its own enumerable properties
JSONerror(e) == e.enumerable

\* the catch block of GET /api/events/bookings
catchBookings(e) ==
    [Response(500, "") EXCEPT !.message = "Events with bookings fetching failed",
                              !.errorJSON = JSONerror(e)]

----------------------------------------------------------------------------
(* Requests *)

Idle ==
    [kind |-> "idle", pc |-> "idle",
     slug |-> [type |-> "undefined", value |-> <<>>],
     event |-> "null",          \* the _id findOne returned
     form |-> NoDoc,            \* the request body, once request.formData() has read it
     updateData |-> NoDoc,
     uploads |-> 0,             \* calls made to the image host
     events |-> <<>>,           \* the documents Event.find() returned
     bookedSpots |-> NoDoc,     \* _id -> the count its countDocuments returned
     caught |-> NoError,        \* the value the catch block received
     res |-> NoResponse]

\* slot k serves the k-th request to arrive
Earlier(r) == IF r = "r2" THEN {"r1"} ELSE {}

Arrives(r) ==
    /\ req[r].pc = "idle"
    /\ \A q \in Earlier(r) : req[q].pc # "idle"

ApiInit ==
    /\ Event = [e \in EventIds |-> StoredEvent(e)]
    /\ Booking = [e \in EventIds |-> 0]
    /\ req = [r \in Reqs |-> Idle]

\* return NextResponse.json(...)
Finish(r, cur, response) ==
    req' = [req EXCEPT ![r] = [cur EXCEPT !.pc = "done", !.res = response]]

\* an awaited call throws e and the catch block answers
Catch(r, cur, e, response) ==
    Finish(r, [cur EXCEPT !.caught = e], response)

----------------------------------------------------------------------------
(* GET /api/events/[slug] *)

GET(r) ==
    /\ UNCHANGED <<connVars, pageVars, uiVars>>
    /\ Arrives(r)
    /\ \E slug \in SlugParams :
        LET cur == [req[r] EXCEPT !.kind = "GET", !.slug = slug] IN
        /\ UNCHANGED <<Event, Booking>>
        /\ IF InvalidSlug(slug)
           THEN Finish(r, cur, Response(400, "Invalid or missing slug parameter"))
           ELSE \/ \E e \in Thrown : Catch(r, cur, e, catchGET(e))
                \/ LET event == findOne(Event, sanitizedSlug(slug.value)) IN
                   IF event = "null"
                   THEN Finish(r, [cur EXCEPT !.event = event], Response(404, "Event not found"))
                   ELSE Finish(r, [cur EXCEPT !.event = event],
                               [Response(200, "") EXCEPT !.event = Event[event]])

----------------------------------------------------------------------------
(* PUT /api/events/[slug] *)

\* fields.forEach(...) : the string-valued scalar fields of the form
scalarUpdate(form) ==
    [k \in {f \in fields : formGet(form, f).type = "string"} |-> form[k].text]

\* updateData.tags / updateData.agenda, when the field is truthy and parses
listUpdate(form, key) ==
    IF truthy(formGet(form, key))
    THEN (key :> JSONparse(asString(form[key])).value)
    ELSE NoDoc

\* a parse check that lets a File value through
parseFails_filesPass(form, key) ==
    /\ formGet(form, key).type = "string"
    /\ formGet(form, key).text # ""
    /\ ~JSONparse(form[key].text).ok

parseFails(form, key) ==
    truthy(formGet(form, key)) /\ ~JSONparse(asString(form[key])).ok

\* an image check that forgets the size
hasImage_anySize(form) == formGet(form, "image").type = "file"

\* imageFile && imageFile.size > 0
hasImage(form) ==
    formGet(form, "image").type = "file" /\ formGet(form, "image").size > 0

\* up to the first await after the form is read: slug check, connectDB, findOne,
\* formData, the field loop and the two JSON.parse
PUTfind(r) ==
    /\ UNCHANGED <<connVars, pageVars, uiVars>>
    /\ Arrives(r)
    /\ \E slug \in SlugParams, form \in Forms(r) :
        LET cur == [req[r] EXCEPT !.kind = "PUT", !.slug = slug] IN
        /\ UNCHANGED <<Event, Booking>>
        /\ IF InvalidSlug(slug)
           THEN Finish(r, cur, Response(400, "Invalid or missing slug parameter"))
           ELSE \/ \E e \in Thrown : Catch(r, cur, e, catchPUT(e))
                \/ LET existingEvent == findOne(Event, sanitizedSlug(slug.value))
                       found == [cur EXCEPT !.event = existingEvent, !.form = form]
                   IN  IF existingEvent = "null"
                       THEN Finish(r, [cur EXCEPT !.event = existingEvent],
                                   Response(404, "Event not found"))
                       ELSE IF parseFails(form, "tags")
                       THEN Finish(r, found, Response(400, "Invalid tags format"))
                       ELSE IF parseFails(form, "agenda")
                       THEN Finish(r, found, Response(400, "Invalid agenda format"))
                       ELSE req' = [req EXCEPT ![r] =
                                [found EXCEPT
                                    !.updateData = scalarUpdate(form) @@ listUpdate(form, "tags")
                                                       @@ listUpdate(form, "agenda"),
                                    !.pc = IF hasImage(form) THEN "upload" ELSE "update"]]

\* the image host stores every upload under a URL of its own
Urls == {"https://img/1", "https://img/2"}
secureUrl(r) == IF r = "r1" THEN "https://img/1" ELSE "https://img/2"

\* cloudinary.uploader.upload_stream(...).end(buffer)
PUTupload(r) ==
    /\ UNCHANGED <<connVars, pageVars, uiVars>>
    /\ req[r].pc = "upload"
    /\ UNCHANGED <<Event, Booking>>
    /\ LET cur == [req[r] EXCEPT !.uploads = @ + 1] IN
       \/ \E e \in UploadThrown : Catch(r, cur, e, catchPUT(e))
       \/ \E secure_url \in {secureUrl(r)} :
            req' = [req EXCEPT ![r] =
                        [cur EXCEPT !.updateData = ("image" :> secure_url) @@ @,
                                    !.pc = "update"]]

\* Event.findOneAndUpdate and the response
PUTupdate(r) ==
    /\ UNCHANGED <<connVars, pageVars, uiVars>>
    /\ req[r].pc = "update"
    /\ req[r].kind = "PUT"
    /\ UNCHANGED Booking
    /\ \/ /\ UNCHANGED Event
          /\ \E e \in QueryThrown : Catch(r, req[r], e, catchPUT(e))
       \/ LET slug == sanitizedSlug(req[r].slug.value)
              updatedEvent == findOne(Event, slug)
          IN  /\ Event' = findOneAndUpdate(Event, slug, req[r].updateData)
              /\ IF updatedEvent = "null"
                 THEN Finish(r, req[r], Response(500, "Failed to update event"))
                 ELSE Finish(r, req[r],
                             [Response(200, "") EXCEPT !.event = Event'[updatedEvent]])

----------------------------------------------------------------------------
(* DELETE /api/events/[slug] *)

DELETEfind(r) ==
    /\ UNCHANGED <<connVars, pageVars, uiVars>>
    /\ Arrives(r)
    /\ \E slug \in SlugParams :
        LET cur == [req[r] EXCEPT !.kind = "DELETE", !.slug = slug] IN
        /\ UNCHANGED <<Event, Booking>>
        /\ IF InvalidSlug(slug)
           THEN Finish(r, cur, Response(400, "Invalid or missing slug parameter"))
           ELSE \/ \E e \in Thrown : Catch(r, cur, e, catchDELETE(e))
                \/ LET event == findOne(Event, sanitizedSlug(slug.value)) IN
                   IF event = "null"
                   THEN Finish(r, [cur EXCEPT !.event = event], Response(404, "Event not found"))
                   ELSE req' = [req EXCEPT ![r] =
                                    [cur EXCEPT !.event = event, !.pc = "deleteMany"]]

\* Booking.deleteMany({ eventId: event._id })
DELETEbookings(r) ==
    /\ UNCHANGED <<connVars, pageVars, uiVars>>
    /\ req[r].pc = "deleteMany"
    /\ UNCHANGED Event
    /\ \/ /\ UNCHANGED Booking
          /\ \E e \in QueryThrown : Catch(r, req[r], e, catchDELETE(e))
       \/ /\ Booking' = deleteMany(Booking, req[r].event)
          /\ req' = [req EXCEPT ![r] =
                        [req[r] EXCEPT
                            !.res.deletedBookingsCount = countDocuments(Booking, req[r].event),
                            !.pc = "deleteEvent"]]

\* Event.findByIdAndDelete(event._id) and the response
DELETEevent(r) ==
    /\ UNCHANGED <<connVars, pageVars, uiVars>>
    /\ req[r].pc = "deleteEvent"
    /\ UNCHANGED Booking
    /\ \/ /\ UNCHANGED Event
          /\ \E e \in QueryThrown : Catch(r, req[r], e, catchDELETE(e))
       \/ /\ Event' = findByIdAndDelete(Event, req[r].event)
          /\ Finish(r, req[r],
                    [Response(200, "") EXCEPT
                        !.deletedBookingsCount = req[r].res.deletedBookingsCount])

----------------------------------------------------------------------------
(* GET /api/events/bookings *)

\* Event.find().sort({ createdAt: -1 }).lean() : the documents, newest first
RECURSIVE sortByCreatedAt(_, _)
sortByCreatedAt(coll, ids) ==
    IF ids = {} THEN <<>>
    ELSE LET newest == CHOOSE e \in ids :
                           \A f \in ids : coll[e].createdAt >= coll[f].createdAt
         IN  <<coll[newest]>> \o sortByCreatedAt(coll, ids \ {newest})

find(coll) == sortByCreatedAt(coll, DOMAIN coll)

idsOf(events) == {events[i]["_id"] : i \in 1..Len(events)}

\* a listing that reports the newest event's count for every event
eventsWithBookings_newestCount(events, bookedSpots) ==
    [i \in 1..Len(events) |->
        ("bookedSpots" :> bookedSpots[events[1]["_id"]]) @@ events[i]]

\* { ...event, _id: event._id.toString(), bookedSpots: bookingCount } for every event
eventsWithBookings(events, bookedSpots) ==
    [i \in 1..Len(events) |->
        ("bookedSpots" :> bookedSpots[events[i]["_id"]]) @@ events[i]]

bookingsResponse(events, bookedSpots) ==
    [Response(200, "") EXCEPT !.message = "Events with bookings fetched successfully",
                              !.events = eventsWithBookings(events, bookedSpots)]

\* await connectDB(); const events = await Event.find()...
BookingsGETfind(r) ==
    /\ UNCHANGED <<connVars, pageVars, uiVars>>
    /\ Arrives(r)
    /\ LET cur == [req[r] EXCEPT !.kind = "BOOKINGS"]
       IN  \/ \E e \in Thrown : Catch(r, cur, e, catchBookings(e))
           \/ LET events == find(Event)
              IN  IF events = <<>>
                  THEN Finish(r, cur, bookingsResponse(events, NoDoc))
                  ELSE req' = [req EXCEPT ![r] =
                                  [cur EXCEPT !.pc = "count", !.events = events]]
    /\ UNCHANGED <<Event, Booking>>

\* one of the countDocuments queries that Promise.all awaits; the last answers
BookingsGETcount(r, id) ==
    /\ UNCHANGED <<connVars, pageVars, uiVars>>
    /\ req[r].pc = "count"
    /\ id \in idsOf(req[r].events) \ DOMAIN req[r].bookedSpots
    /\ \/ \E e \in QueryThrown : Catch(r, req[r], e, catchBookings(e))
       \/ LET bookedSpots == (id :> countDocuments(Booking, id)) @@ req[r].bookedSpots
              cur == [req[r] EXCEPT !.bookedSpots = bookedSpots]
          IN  IF DOMAIN bookedSpots = idsOf(cur.events)
              THEN Finish(r, cur, bookingsResponse(cur.events, bookedSpots))
              ELSE req' = [req EXCEPT ![r] = cur]
    /\ UNCHANGED <<Event, Booking>>

----------------------------------------------------------------------------
(* Booking creation: a booking is made for an event that is in the store *)

createBooking(eventId) ==
    /\ UNCHANGED <<connVars, pageVars, uiVars>>
    /\ eventId \in DOMAIN Event
    /\ Booking["e1"] + Booking["e2"] < MaxBookings
    /\ Booking' = [Booking EXCEPT ![eventId] = @ + 1]
    /\ UNCHANGED <<Event, req>>

----------------------------------------------------------------------------
(* lib/mongodb: connectDB and its cache *)

\* cached.conn and cached.promise: 0 is null, k is the connection (the promise)
\* of the k-th call to mongoose.connect
Callers == {"c1", "c2", "c3"}

NoCall == [pc |-> "idle", promise |-> 0, conn |-> 0]

ConnInit ==
    /\ cached = [conn |-> 0, promise |-> 0]
    /\ connects = <<>>
    /\ call = [c \in Callers |-> NoCall]

\* a caller's continuation is queued: the promise it awaits has settled
reactionQueued(c) ==
    call[c].pc = "await" /\ connects[call[c].promise] # "pending"

\* a test that lets every call start an establishment
needsConnect_always(cache) == TRUE

\* if (!cached.promise)
needsConnect(cache) == cache.promise = 0

\* a catch block that leaves the rejected promise in the cache
afterRejection_keepsPromise(cache) == cache

\* catch (error) { cached.promise = null; ... }
afterRejection(cache) == [cache EXCEPT !.promise = 0]

\* a call of connectDB up to its return or its await. A call is made from a
\* task of its own, so it finds no continuation of an earlier call queued.
connectDB(c) ==
    /\ UNCHANGED <<apiVars, pageVars, uiVars>>
    /\ call[c].pc # "await"
    /\ \A d \in Callers : ~reactionQueued(d)
    /\ IF cached.conn # 0
       THEN /\ call' = [call EXCEPT ![c] =
                            [pc |-> "returned", promise |-> 0, conn |-> cached.conn]]
            /\ UNCHANGED <<cached, connects>>
       ELSE IF needsConnect(cached)
       THEN /\ Len(connects) < MaxConnects
            /\ connects' = Append(connects, "pending")
            /\ cached' = [cached EXCEPT !.promise = Len(connects')]
            /\ call' = [call EXCEPT ![c] =
                            [pc |-> "await", promise |-> Len(connects'), conn |-> 0]]
       ELSE /\ call' = [call EXCEPT ![c] =
                            [pc |-> "await", promise |-> cached.promise, conn |-> 0]]
            /\ UNCHANGED <<cached, connects>>

\* mongoose.connect(...) settles: the connection is made, or it fails
connectSettles(k) ==
    /\ UNCHANGED <<apiVars, pageVars, uiVars>>
    /\ k \in DOMAIN connects
    /\ connects[k] = "pending"
    /\ \E outcome \in {"fulfilled", "rejected"} :
          connects' = [connects EXCEPT ![k] = outcome]
    /\ UNCHANGED <<cached, call>>

\* the rest of connectDB after `await cached.promise`
connectDBresume(c) ==
    /\ UNCHANGED <<apiVars, pageVars, uiVars>>
    /\ reactionQueued(c)
    /\ IF connects[call[c].promise] = "fulfilled"
       THEN /\ cached' = [cached EXCEPT !.conn = call[c].promise]
            /\ call' = [call EXCEPT ![c].pc = "returned", ![c].conn = cached'.conn]
       ELSE /\ cached' = afterRejection(cached)
            /\ call' = [call EXCEPT ![c].pc = "threw"]
    /\ UNCHANGED connects

NextConn ==
    \/ \E c \in Callers : connectDB(c)
    \/ \E k \in 1..MaxConnects : connectSettles(k)
    \/ \E c \in Callers : connectDBresume(c)

----------------------------------------------------------------------------
(* The listing pages: the home page "/" and the management page "/events" *)

Paths == {"/", "/events"}

eventsPerPage(path) == IF path = "/" THEN 6 ELSE 10

Min(a, b) == IF a < b THEN a ELSE b
Max(a, b) == IF a > b THEN a ELSE b

\* the list without its i-th element
without(s, i) == SubSeq(s, 1, i - 1) \o SubSeq(s, i + 1, Len(s))

\* Array.prototype.slice(begin, end) on a list indexed from 1
slice(list, begin, end) ==
    LET index(i) == IF i < 0 THEN Max(Len(list) + i, 0) ELSE Min(i, Len(list))
    IN  IF index(begin) >= index(end) THEN <<>>
        ELSE SubSeq(list, index(begin) + 1, index(end))

\* a rounding that drops the last, partly filled page
MathCeil_floor(n, d) == n \div d

\* Math.ceil(n / d) for n >= 0, d > 0
MathCeil(n, d) == IF n % d = 0 THEN n \div d ELSE n \div d + 1

\* the component's state when it mounts
Mounted(path) ==
    [path |-> path, loading |-> TRUE, data |-> "none",
     events |-> <<>>, currentPage |-> 1, totalPages |-> 1, scrollTop |-> 0,
     notification |-> "null", notificationType |-> "success",
     shown |-> 0,       \* notifications shown so far; the last is the one on the screen
     timers |-> <<>>,   \* pending setTimeout calls, oldest first: the notification each was started for
     pressed |-> 0,     \* delete buttons pressed so far
     deletes |-> <<>>,  \* the activations of handleDelete that await their fetch
     overlapped |-> FALSE,  \* a delete was started while another awaited its fetch
     deleted |-> {}]    \* the events whose DELETE request has succeeded

PageInit == page = Mounted("/")

\* the home page computes totalPages when it renders, the management page keeps it
totalPages(pg) ==
    IF pg.path = "/" THEN MathCeil(Len(pg.events), eventsPerPage(pg.path))
    ELSE pg.totalPages

indexOfLastEvent(pg) == pg.currentPage * eventsPerPage(pg.path)
indexOfFirstEvent(pg) == indexOfLastEvent(pg) - eventsPerPage(pg.path)
currentEvents(pg) == slice(pg.events, indexOfFirstEvent(pg), indexOfLastEvent(pg))

\* the browser opens one of the two pages
mount(path) ==
    /\ UNCHANGED <<apiVars, connVars, uiVars>>
    /\ page' = Mounted(path)

\* the lengths of the lists the management page is loaded with: empty, one
\* page, and either side of a page boundary
ManagedCounts == {0, 1, 2, 10, 11, 12, 20, 21}

\* fetchEvents: the answer carries n events, or it carries none or the fetch fails
fetchEvents(n) ==
    /\ UNCHANGED <<apiVars, connVars, uiVars>>
    /\ page.loading
    /\ page.path = "/events" => n \in ManagedCounts
    /\ \/ LET events == [i \in 1..n |-> i] IN
          page' = [page EXCEPT
                      !.loading = FALSE, !.data = "events", !.events = events,
                      !.totalPages = IF page.path = "/" THEN @
                                     ELSE MathCeil(Len(events), eventsPerPage(page.path))]
       \/ /\ n = 0
          /\ page' = [page EXCEPT !.loading = FALSE, !.data = "error"]

\* the pagination control is on the screen: the home page renders it with a
\* non-empty page only, and the control renders nothing for a single page
paginationShown(pg) ==
    /\ ~pg.loading
    /\ pg.path = "/" => Len(currentEvents(pg)) > 0
    /\ totalPages(pg) > 1

\* handlePageChange: the home page also scrolls to the top of the list
handlePageChange(pg, newPage) ==
    [pg EXCEPT !.currentPage = newPage,
               !.scrollTop = IF pg.path = "/" THEN 400 ELSE @]

handlePrevious ==
    /\ UNCHANGED <<apiVars, connVars, uiVars>>
    /\ paginationShown(page)
    /\ page.currentPage > 1
    /\ page' = handlePageChange(page, page.currentPage - 1)

handleNext ==
    /\ UNCHANGED <<apiVars, connVars, uiVars>>
    /\ paginationShown(page)
    /\ page.currentPage < totalPages(page)
    /\ page' = handlePageChange(page, page.currentPage + 1)

\* showNotification: the timer it starts is never cleared
showNotification(pg, message, type) ==
    [pg EXCEPT !.notification = message, !.notificationType = type,
               !.shown = @ + 1, !.timers = Append(@, pg.shown + 1)]

\* the rows whose delete button the user presses: the first and the last shown
deleteTargets(pg) ==
    IF Len(currentEvents(pg)) = 0 THEN {}
    ELSE {currentEvents(pg)[1], currentEvents(pg)[Len(currentEvents(pg))]}

\* events.filter(e => e.slug !== slug)
filterOut(events, slug) == SelectSeq(events, LAMBDA e : e # slug)

\* handleDelete up to its await: the confirm dialog, then the fetch; the
\* activation keeps the events and the currentPage of the render it was made in
handleDelete(slug, confirmed) ==
    /\ UNCHANGED <<apiVars, connVars, uiVars>>
    /\ page.path = "/events"
    /\ ~page.loading
    /\ slug \in deleteTargets(page)
    /\ page.pressed < MaxDeletes
    /\ page' = [page EXCEPT
                   !.pressed = @ + 1,
                   !.overlapped = @ \/ (confirmed /\ page.deletes # <<>>),
                   !.deletes = IF confirmed
                               THEN Append(@, [slug |-> slug, events |-> page.events,
                                               currentPage |-> page.currentPage])
                               ELSE @]

\* how the DELETE request ends
DeleteOutcomes == {"ok", "not ok", "throws"}

\* updatedEvents: computed from the events the activation was made with
afterDelete(pg, d) == filterOut(d.events, d.slug)

\* handleDelete from its await on
handleDeleteResume(i, outcome) ==
    /\ UNCHANGED <<apiVars, connVars, uiVars>>
    /\ i \in 1..Len(page.deletes)
    /\ LET d == page.deletes[i]
           rest == [page EXCEPT !.deletes = without(@, i)]
           updatedEvents == afterDelete(page, d)
       IN  CASE outcome = "ok" ->
                  page' = showNotification(
                      [rest EXCEPT
                          !.events = updatedEvents,
                          !.totalPages = MathCeil(Len(updatedEvents), eventsPerPage(page.path)),
                          !.currentPage =
                              IF /\ d.currentPage > 1
                                 /\ (d.currentPage - 1) * eventsPerPage(page.path) >= Len(updatedEvents)
                              THEN d.currentPage - 1 ELSE @,
                          !.deleted = @ \cup {d.slug}],
                      "Event deleted successfully!", "success")
             [] outcome = "not ok" ->
                  page' = showNotification(rest, "Failed to delete event", "error")
             [] OTHER ->
                  page' = showNotification(rest, "An error occurred while deleting the event", "error")

\* the oldest 3 second timer runs out: setNotification(null)
notificationTimer ==
    /\ UNCHANGED <<apiVars, connVars, uiVars>>
    /\ page.timers # <<>>
    /\ page' = [page EXCEPT !.notification = "null", !.timers = Tail(@)]

NextPage ==
    \/ \E path \in Paths : mount(path)
    \/ \E n \in 0..MaxEvents : fetchEvents(n)
    \/ handlePrevious
    \/ handleNext
    \/ \E slug \in 1..MaxEvents : \E confirmed \in BOOLEAN : handleDelete(slug, confirmed)
    \/ \E i \in 1..MaxDeletes : \E outcome \in DeleteOutcomes : handleDeleteResume(i, outcome)
    \/ notificationTimer

----------------------------------------------------------------------------
(* The create form (CreateEventPage) and the edit form (EditEvent) *)

TextKeys == {"title", "description", "overview", "venue", "location", "audience", "organizer"}
ChoiceKeys == {"date", "time", "mode"}
ListKeys == {"tags", "agenda"}
FormKeys == TextKeys \cup ChoiceKeys \cup ListKeys

\* calendar days, as the strings a date input holds
Days == {"day1", "day2", "day3"}
dayNumber(d) == CASE d = "day1" -> 1 [] d = "day2" -> 2 [] d = "day3" -> 3 [] OTHER -> 0

\* the form with nothing typed
EmptyForm == [k \in FormKeys |-> IF k \in ListKeys THEN <<>> ELSE ""]

\* the form filled in for day d
FilledForm(d) ==
    [k \in FormKeys |-> IF k \in ListKeys THEN <<"t0">> ELSE IF k = "date" THEN d ELSE "v0"]

\* what the user makes of the form: filled in, or filled in but for one field
TypedForms ==
    {EmptyForm}
    \cup {FilledForm(d) : d \in Days}
    \cup {[FilledForm("day2") EXCEPT ![k] = " "] : k \in {"title", "organizer"}}
    \cup {[FilledForm("day2") EXCEPT ![k] = ""] : k \in {"title", "date"}}
    \cup {[FilledForm("day2") EXCEPT ![k] = <<>>] : k \in ListKeys}

\* value.trim() of the texts above is empty
trimsToEmpty(text) == text \in {"", " "}

\* the files a user can pick
PickedFiles ==
    { FileEntry(1, "image/png"),
      FileEntry(5 * 1024 * 1024, "image/jpeg"),
      FileEntry(5 * 1024 * 1024 + 1, "image/png"),
      FileEntry(1, "application/pdf") }

\* the part of a MIME type up to the slash
mimePrefix(mime) ==
    CASE mime \in {"image/png", "image/jpeg"} -> "image/"
      [] mime = "application/pdf" -> "application/"
      [] mime = "text/plain" -> "text/"
      [] OTHER -> ""

\* file.type.startsWith(prefix), for a prefix that ends at the slash
startsWith(mime, prefix) == mimePrefix(mime) = prefix

NoNotification == [type |-> "null", message |-> "", id |-> 0]
NoRequest == [method |-> "none", body |-> NoDoc]

\* no form is on the screen
NoForm ==
    [which |-> "none", loading |-> FALSE, event |-> FALSE,
     error |-> "",              \* EditEvent's error
     formData |-> EmptyForm, imageFile |-> NoFile, errors |-> {},
     submitting |-> FALSE, notification |-> NoNotification,
     bubble |-> FALSE,          \* the browser points at an input it finds invalid
     shown |-> 0,               \* notifications this form has set so far
     request |-> NoRequest,     \* the fetch handleSubmit awaits
     orphans |-> 0,             \* the fetches still awaited of forms that have been left
     timers |-> <<>>,           \* pending setTimeout calls, oldest first
     utcToday |-> "day2"]       \* the UTC date; the user's calendar says day2

UiInit == ui = NoForm

\* useEffect(..., [notification]): the clean-up clears the timer of the former
\* notification, and a notification that is set starts its own timer
notificationEffect(old, new) ==
    IF new.notification = old.notification THEN new
    ELSE [new EXCEPT !.timers =
             SelectSeq(@, LAMBDA t : t.kind # "hide") \o
             (IF new.notification = NoNotification THEN <<>>
              ELSE <<[kind |-> "hide", delay |-> 5000, id |-> new.notification.id]>>)]

\* setNotification({ type, message })
setNotification(u, type, message) ==
    [u EXCEPT !.notification = [type |-> type, message |-> message, id |-> u.shown + 1],
              !.shown = u.shown + 1]

\* the component leaves the screen: its state is gone, its effect is cleaned up,
\* its other timers and its fetch go on
unmounted(u) ==
    [NoForm EXCEPT !.timers = SelectSeq(u.timers, LAMBDA t : t.kind # "hide"),
                   !.orphans = u.orphans + (IF u.submitting THEN 1 ELSE 0)]

\* the form is rendered: the edit form needs its event
formShown(u) ==
    \/ u.which = "create"
    \/ u.which = "edit" /\ ~u.loading /\ u.event

\* the browser opens /events/create or /events/{slug}/edit
mountForm(which) ==
    /\ UNCHANGED <<apiVars, connVars, pageVars>>
    /\ ui.which = "none"
    /\ \E utc \in IF which = "create" THEN {"day1", "day2"} ELSE {"day2"} :
          ui' = [NoForm EXCEPT !.which = which, !.loading = (which = "edit"),
                               !.timers = ui.timers, !.orphans = ui.orphans,
                               !.utcToday = utc]

\* EditEvent.fetchEvent: the event arrives, or it does not
fetchEvent ==
    /\ UNCHANGED <<apiVars, connVars, pageVars>>
    /\ ui.which = "edit" /\ ui.loading
    /\ \/ ui' = [ui EXCEPT !.loading = FALSE, !.event = TRUE,
                           !.formData = FilledForm("day2")]
       \/ ui' = [ui EXCEPT !.loading = FALSE, !.error = "Failed to fetch event"]

\* handleInputChange, handleAddTag, handleRemoveTag, ...: the user edits the
\* form until it reads typed; an edited field and a list that grew lose their error
handleInputChange(typed) ==
    /\ UNCHANGED <<apiVars, connVars, pageVars>>
    /\ formShown(ui)
    /\ typed # ui.formData
    /\ LET cleared == {k \in FormKeys :
                          /\ typed[k] # ui.formData[k]
                          /\ k \in ListKeys => Len(typed[k]) > Len(ui.formData[k])}
       IN  ui' = [ui EXCEPT !.formData = typed, !.errors = @ \ cleared, !.bubble = FALSE]

\* handleImageChange: the create form checks the type and the size
acceptsImage(which, file) ==
    which = "create" =>
        /\ startsWith(file.mime, "image/")
        /\ ~(file.size > 5 * 1024 * 1024)

\* the user picks a file, or closes the dialog
handleImageChange(file) ==
    /\ UNCHANGED <<apiVars, connVars, pageVars>>
    /\ formShown(ui)
    /\ IF file = NoFile THEN UNCHANGED ui
       ELSE IF acceptsImage(ui.which, file)
       THEN ui' = [ui EXCEPT !.imageFile = file, !.errors = @ \ {"image"}]
       ELSE ui' = [ui EXCEPT !.errors = @ \cup {"image"}]

\* the browser's constraint validation keeps the submit event from the form:
\* the create form's date input has min = the UTC date, the edit form's inputs
\* are required
browserBlocks(u) ==
    IF u.which = "create"
    THEN u.formData["date"] # "" /\ dayNumber(u.formData["date"]) < dayNumber(u.utcToday)
    ELSE \E k \in TextKeys \cup ChoiceKeys : u.formData[k] = ""

\* validateForm: the fields it finds fault with
validateForm(u) ==
    {k \in TextKeys : trimsToEmpty(u.formData[k])}
    \cup {k \in ChoiceKeys : u.formData[k] = ""}
    \cup (IF u.imageFile = NoFile THEN {"image"} ELSE {})
    \cup {k \in ListKeys : Len(u.formData[k]) = 0}

\* the FormData handleSubmit builds
submitBody(u) == submitData(u.formData, u.imageFile)

\* the redirects still to come
pendingRedirects(u) ==
    Len(SelectSeq(u.timers, LAMBDA t : t.kind = "redirect")) + u.orphans

\* the user presses the submit button: handleSubmit up to its await
handleSubmit ==
    /\ UNCHANGED <<apiVars, connVars, pageVars>>
    /\ formShown(ui)
    /\ ~ui.submitting
    /\ ui.shown < MaxNotes
    /\ pendingRedirects(ui) < MaxRedirects
    /\ IF browserBlocks(ui) THEN ui' = [ui EXCEPT !.bubble = TRUE]
       ELSE IF ui.which = "create" /\ validateForm(ui) # {}
       THEN ui' = notificationEffect(ui,
                     setNotification([ui EXCEPT !.errors = validateForm(ui), !.bubble = FALSE],
                                     "error", "Please fill in all required fields"))
       ELSE ui' = notificationEffect(ui,
                     [ui EXCEPT !.errors = {}, !.error = "", !.submitting = TRUE,
                                !.bubble = FALSE,
                                !.notification = NoNotification,
                                !.request = [method |-> IF ui.which = "create" THEN "POST" ELSE "PUT",
                                             body |-> submitBody(ui)]])

\* how the awaited fetch ends
Outcomes ==
    { [ok |-> TRUE, thrown |-> FALSE, message |-> ""],
      [ok |-> FALSE, thrown |-> FALSE, message |-> "Validation failed"],
      [ok |-> FALSE, thrown |-> FALSE, message |-> ""],
      [ok |-> FALSE, thrown |-> TRUE, message |-> "Failed to fetch"],
      [ok |-> FALSE, thrown |-> TRUE, message |-> ""] }

\* err instanceof Error ? err.message : default, with result.message || default
\* before it
errorMessage(which, outcome) ==
    IF outcome.message # "" THEN outcome.message
    ELSE IF which = "create" THEN "Failed to create event" ELSE "Failed to update event"

successMessage(which) ==
    IF which = "create" THEN "Event created successfully!" ELSE "Event updated successfully!"

redirectTimer == [kind |-> "redirect", delay |-> 1500, id |-> 0]

\* a continuation that schedules the redirect whatever the outcome
handleSubmitResume_alwaysRedirects(outcome) ==
    /\ UNCHANGED <<apiVars, connVars, pageVars>>
    /\ \/ /\ ui.submitting
          /\ LET done == [ui EXCEPT !.submitting = FALSE, !.request = NoRequest,
                                    !.timers = Append(@, redirectTimer)]
             IN  IF outcome.ok
                 THEN ui' = notificationEffect(ui,
                               setNotification(done, "success", successMessage(ui.which)))
                 ELSE ui' = notificationEffect(ui,
                               setNotification([done EXCEPT !.error =
                                                    IF ui.which = "edit"
                                                    THEN errorMessage(ui.which, outcome) ELSE @],
                                               "error", errorMessage(ui.which, outcome)))
       \/ /\ ui.orphans > 0
          /\ ui' = [ui EXCEPT !.orphans = @ - 1,
                              !.timers = IF outcome.ok THEN Append(@, redirectTimer) ELSE @]

\* handleSubmit from its await on: try, catch, finally; in a form that has been
\* left the state setters do nothing and only the redirect is left to do
handleSubmitResume(outcome) ==
    /\ UNCHANGED <<apiVars, connVars, pageVars>>
    /\ \/ /\ ui.submitting
          /\ LET done == [ui EXCEPT !.submitting = FALSE, !.request = NoRequest]
             IN  IF outcome.ok
                 THEN ui' = notificationEffect(ui,
                               setNotification([done EXCEPT !.timers = Append(@, redirectTimer)],
                                               "success", successMessage(ui.which)))
                 ELSE ui' = notificationEffect(ui,
                               setNotification([done EXCEPT !.error =
                                                    IF ui.which = "edit"
                                                    THEN errorMessage(ui.which, outcome) ELSE @],
                                               "error", errorMessage(ui.which, outcome)))
       \/ /\ ui.orphans > 0
          /\ ui' = [ui EXCEPT !.orphans = @ - 1,
                              !.timers = IF outcome.ok THEN Append(@, redirectTimer) ELSE @]

\* a timer can fire once no timer started before it with at most its delay is pending
due(u, i) == \A j \in 1..(i - 1) : u.timers[j].delay > u.timers[i].delay

\* a setTimeout callback runs: setNotification(null), or router.push("/events")
timerFires(i) ==
    /\ UNCHANGED <<apiVars, connVars, pageVars>>
    /\ i \in 1..Len(ui.timers)
    /\ due(ui, i)
    /\ LET rest == [ui EXCEPT !.timers = without(@, i)]
       IN  IF ui.timers[i].kind = "hide"
           THEN ui' = notificationEffect(rest, [rest EXCEPT !.notification = NoNotification])
           ELSE ui' = unmounted(rest)

\* Cancel, Back to Events: router.push("/events")
cancel ==
    /\ UNCHANGED <<apiVars, connVars, pageVars>>
    /\ ui.which # "none"
    /\ ~ui.loading
    /\ ui' = unmounted(ui)

NextForm ==
    \/ \E which \in {"create", "edit"} : mountForm(which)
    \/ fetchEvent
    \/ \E typed \in TypedForms : handleInputChange(typed)
    \/ \E file \in PickedFiles \cup {NoFile} : handleImageChange(file)
    \/ handleSubmit
    \/ \E outcome \in Outcomes : handleSubmitResume(outcome)
    \/ \E i \in 1..(MaxRedirects + 1) : timerFires(i)
    \/ cancel

----------------------------------------------------------------------------

Init == ApiInit /\ ConnInit /\ PageInit /\ UiInit

Next ==
    \/ \E r \in Reqs : GET(r)
    \/ \E r \in Reqs : PUTfind(r)
    \/ \E r \in Reqs : PUTupload(r)
    \/ \E r \in Reqs : PUTupdate(r)
    \/ \E r \in Reqs : DELETEfind(r)
    \/ \E r \in Reqs : DELETEbookings(r)
    \/ \E r \in Reqs : DELETEevent(r)
    \/ \E r \in Reqs : BookingsGETfind(r)
    \/ \E r \in Reqs : \E id \in EventIds : BookingsGETcount(r, id)
    \/ \E eventId \in EventIds : createBooking(eventId)

Spec == Init /\ [][Next]_vars

\* the connection cache on its own
SpecConn == Init /\ [][NextConn]_vars

\* the event loop runs every queued continuation
SpecConnFair == SpecConn /\ \A c \in Callers : WF_vars(connectDBresume(c))

\* a listing page on its own
SpecPage == Init /\ [][NextPage]_vars

\* a form on its own
SpecForm == Init /\ [][NextForm]_vars

\* the fetch a form awaits settles: it resolves or it rejects
SpecFormFair == SpecForm /\ WF_vars(\E outcome \in Outcomes : handleSubmitResume(outcome))

----------------------------------------------------------------------------
(* Properties *)

Deleted(r) == req[r].kind = "DELETE" /\ req[r].pc = "done" /\ req[r].res.status = 200

\* the step is request r arriving at handler kind
ArrivesAt(r, kind) == req[r].pc = "idle" /\ req'[r].kind = kind

\* the step is request r moving from one await to the next
Moves(r, from, to) == req[r].pc = from /\ req'[r].pc = to

\* nothing was thrown in the step
Quiet(r) == req'[r].caught = NoError

\* trim(lowercase(s)), the lookup key of a slug
Canon(s) == trim(toLowerCase(s))

Holds(coll, slug) == \E e \in DOMAIN coll : coll[e].slug = slug

NonBlank(p) == p.type = "string" /\ trim(p.value) # <<>>

\* C1: once DELETE has answered 200, the event is gone and no booking refers
\* to it, whatever interleaved with the two delete steps.
C1_NoBookingSurvivesDelete ==
    \A r \in Reqs :
        Deleted(r) => /\ req[r].event \notin DOMAIN Event
                      /\ Booking[req[r].event] = 0

\* C2: deletedBookingsCount is the number of bookings that referred to the
\* event when the DELETE removed them, and a GET of the slug of a deleted
\* event that reaches the store answers 404.
C2_DeleteCountsAndGetMisses ==
    [][\A r \in Reqs :
        /\ Moves(r, "deleteMany", "deleteEvent")
              => req'[r].res.deletedBookingsCount = Booking[req[r].event]
        /\ Moves(r, "deleteEvent", "done") /\ Quiet(r)
              => /\ req'[r].res.status = 200
                 /\ req'[r].res.deletedBookingsCount = req[r].res.deletedBookingsCount
        /\ \A q \in Reqs :
              ( /\ ArrivesAt(q, "GET") /\ Quiet(q) /\ Deleted(r)
                /\ NonBlank(req'[q].slug)
                /\ Canon(req'[q].slug.value) = Canon(req[r].slug.value) )
              => req'[q].res.status = 404]_vars

C2_Witness ==
    \E r, q \in Reqs :
        /\ Deleted(r) /\ req[r].res.deletedBookingsCount = MaxBookings
        /\ req[q].kind = "GET" /\ req[q].res.status = 404
        /\ req[q].slug = req[r].slug

\* C3 as stated: GET answers 404 for every slug string no event is stored under.
C3_EveryMissingSlugIs404 ==
    [][\A r \in Reqs :
        ( /\ ArrivesAt(r, "GET") /\ Quiet(r)
          /\ req'[r].slug.type = "string"
          /\ ~Holds(Event, Canon(req'[r].slug.value)) )
        => req'[r].res.status = 404]_vars

\* C3: GET answers 404 for every non-blank slug no event is stored under,
\* when the lookup does not throw.
C3_MissingSlugIs404 ==
    [][\A r \in Reqs :
        ( /\ ArrivesAt(r, "GET") /\ Quiet(r)
          /\ NonBlank(req'[r].slug)
          /\ ~Holds(Event, Canon(req'[r].slug.value)) )
        => /\ req'[r].res.status = 404
           /\ req'[r].res.event = NoDoc]_vars

C3_Witness ==
    \E r \in Reqs :
        /\ req[r].kind = "GET" /\ req[r].res.status = 404
        /\ req[r].slug.value = <<"b">>

\* C4: without a database failure GET answers 400 for a missing, non-string
\* or blank slug, 404 when no event has the sanitized slug, and otherwise 200
\* with that event; it never changes the collections.
C4_GetOutcomes ==
    [][\A r \in Reqs :
        ArrivesAt(r, "GET") =>
            /\ Event' = Event /\ Booking' = Booking
            /\ req'[r].pc = "done"
            /\ ~NonBlank(req'[r].slug) => req'[r].res.status = 400
            /\ NonBlank(req'[r].slug) /\ Quiet(r) =>
                 LET slug == Canon(req'[r].slug.value) IN
                 IF Holds(Event, slug)
                 THEN /\ req'[r].res.status = 200
                      /\ req'[r].res.event \in {Event[e] : e \in DOMAIN Event}
                      /\ req'[r].res.event.slug = slug
                 ELSE req'[r].res.status = 404]_vars

C4_Witness ==
    \E r, q \in Reqs :
        /\ req[r].kind = "GET" /\ req[r].res.status = 200
        /\ req[r].res.event = Event["e2"]
        /\ req[q].kind = "GET" /\ req[q].res.status = 400
        /\ req[q].slug.value = <<" ">>

\* C5: GET, PUT and DELETE resolve a non-blank slug s to what they resolve
\* trim(lowercase(s)) to, and sanitizing twice is sanitizing once.
C5_SlugLookupInsensitive ==
    [][\A r \in Reqs : \A kind \in {"GET", "PUT", "DELETE"} :
        ( ArrivesAt(r, kind) /\ Quiet(r) /\ NonBlank(req'[r].slug) ) =>
            LET s == req'[r].slug.value IN
            /\ req'[r].event = findOne(Event, sanitizedSlug(Canon(s)))
            /\ (req'[r].res.status = 404) = ~Holds(Event, Canon(s))
            /\ sanitizedSlug(sanitizedSlug(s)) = sanitizedSlug(s)]_vars

C5_Witness ==
    \E r, q \in Reqs :
        /\ req[r].kind = "DELETE" /\ req[r].slug.value = <<" ", "A", " ">>
        /\ req[r].event = "e1"
        /\ req[q].kind = "PUT" /\ req[q].slug.value = <<"a", "A">>
        /\ req[q].event = "e2"

\* C6: PUT and DELETE on a slug no event has answer 404 and touch nothing:
\* both collections stay as they are and PUT calls the image host not once.
C6_MissingTargetIsNoOp ==
    [][\A r \in Reqs :
        /\ \A kind \in {"PUT", "DELETE"} :
            ( /\ ArrivesAt(r, kind) /\ Quiet(r)
              /\ NonBlank(req'[r].slug)
              /\ ~Holds(Event, Canon(req'[r].slug.value)) )
            => /\ req'[r].res.status = 404
               /\ req'[r].pc = "done"
               /\ req'[r].uploads = 0
               /\ Event' = Event /\ Booking' = Booking
        /\ req[r].pc = "done" => req'[r] = req[r]]_vars

C6_Witness ==
    \E r, q \in Reqs :
        /\ req[r].kind = "PUT" /\ req[r].res.status = 404 /\ req[r].uploads = 0
        /\ req[q].kind = "DELETE" /\ req[q].res.status = 404
        /\ Event = [e \in EventIds |-> StoredEvent(e)]

\* a non-empty file came with the form under "image"
FileAttached(form) ==
    /\ "image" \in DOMAIN form
    /\ form["image"].type = "file"
    /\ form["image"].size # 0

\* C7: a PUT without an image file (none, or one of size 0) never calls the
\* image host and leaves the stored image URL alone; a PUT with one stores the
\* URL the host returned; the edit form sends an image only when the user
\* picked a file.
C7_ImageOnlyWhenAttached ==
    [][\A r \in Reqs :
        /\ ~FileAttached(req[r].form) => req[r].uploads = 0
        /\ Moves(r, "upload", "update")
              => /\ req'[r].uploads = 1
                 /\ req'[r].updateData["image"] \in Urls
        /\ Moves(r, "update", "done") /\ req[r].kind = "PUT" /\ req'[r].res.status = 200
              => LET id == req[r].event IN
                 IF FileAttached(req[r].form)
                 THEN /\ req[r].uploads = 1
                      /\ Event'[id]["image"] = req[r].updateData["image"]
                 ELSE Event'[id]["image"] = Event[id]["image"]
        /\ ArrivesAt(r, "PUT")
              => \A f \in ImageFiles \cup {NoFile} :
                    ("image" \in DOMAIN submitData(formDataOf(r), f)) = (f # NoFile)]_vars

C7_Witness ==
    \E r, q \in Reqs :
        /\ req[r].kind = "PUT" /\ req[r].res.status = 200
        /\ "image" \in DOMAIN req[r].form /\ ~FileAttached(req[r].form)
        /\ req[r].res.event["image"] = "https://img/0"
        /\ req[q].kind = "PUT" /\ req[q].res.status = 200
        /\ FileAttached(req[q].form)
        /\ Event[req[q].event]["image"] = secureUrl(q)

\* the form has the field and JSON.parse rejects its text
Unparseable(form, key) ==
    key \in DOMAIN form /\ ~JSONparse(asString(form[key])).ok

TargetFound(r) ==
    /\ Quiet(r) /\ NonBlank(req'[r].slug)
    /\ Holds(Event, Canon(req'[r].slug.value))

\* C8 as stated: any tags or agenda field that is not parseable JSON makes the
\* PUT answer 400 with nothing written and nothing uploaded.
C8_UnparseableListIs400 ==
    [][\A r \in Reqs :
        ( /\ ArrivesAt(r, "PUT") /\ TargetFound(r)
          /\ \E key \in {"tags", "agenda"} : Unparseable(req'[r].form, key) )
        => /\ req'[r].pc = "done"
           /\ req'[r].res.status = 400
           /\ req'[r].uploads = 0
           /\ Event' = Event]_vars

\* C8: a non-empty tags or agenda field that is not parseable JSON makes the
\* PUT answer 400 with nothing written and nothing uploaded.
C8_NonEmptyUnparseableListIs400 ==
    [][\A r \in Reqs :
        ( /\ ArrivesAt(r, "PUT") /\ TargetFound(r)
          /\ \E key \in {"tags", "agenda"} :
                /\ Unparseable(req'[r].form, key)
                /\ req'[r].form[key] # StringEntry("") )
        => /\ req'[r].pc = "done"
           /\ req'[r].res.status = 400
           /\ req'[r].res.error \in {"Invalid tags format", "Invalid agenda format"}
           /\ req'[r].uploads = 0
           /\ req'[r].updateData = NoDoc
           /\ Event' = Event]_vars

C8_Witness ==
    \E r \in Reqs :
        /\ req[r].kind = "PUT" /\ req[r].res.error = "Invalid agenda format"
        /\ FileAttached(req[r].form) /\ "venue" \in DOMAIN req[r].form
        /\ req[r].uploads = 0
        /\ Event[req[r].event] = StoredEvent(req[r].event)

\* the value the form carries for a key of the allow-list; for a file under
\* "image", the URL the image host gave for it
Sent(r, key) ==
    IF key = "image" /\ FileAttached(req[r].form) THEN req[r].updateData["image"]
    ELSE IF key \in {"tags", "agenda"} THEN JSONparse(asString(req[r].form[key])).value
    ELSE req[r].form[key].text

\* the rest of a successful PUT: keys it must not touch, the other events,
\* and the record it returns
PutFrame(r) ==
    LET id == req[r].event IN
    /\ \A k \in DocKeys \ UpdatableKeys : Event'[id][k] = Event[id][k]
    /\ \A e \in DOMAIN Event \ {id} : Event'[e] = Event[e]
    /\ DOMAIN Event' = DOMAIN Event
    /\ Booking' = Booking
    /\ req'[r].res.event = Event'[id]

PutSucceeds(r) ==
    Moves(r, "update", "done") /\ req[r].kind = "PUT" /\ req'[r].res.status = 200

\* C9 as stated: a successful PUT replaces every allow-list field present in
\* the form and no other.
C9_ReplacesFieldsPresent ==
    [][\A r \in Reqs :
        PutSucceeds(r) =>
            /\ \A k \in UpdatableKeys :
                  Event'[req[r].event][k] =
                      IF k \in DOMAIN req[r].form THEN Sent(r, k)
                      ELSE Event[req[r].event][k]
            /\ PutFrame(r)]_vars

\* the form carries a value PUT takes: a string for a scalar field, a
\* non-empty text for tags and agenda, a non-empty file for image
Provided(form, key) ==
    /\ key \in DOMAIN form
    /\ IF key = "image" THEN FileAttached(form)
       ELSE IF key \in {"tags", "agenda"} THEN form[key] # StringEntry("")
       ELSE form[key].type = "string"

\* C9: a successful PUT replaces exactly the allow-list fields the form gives
\* a usable value for (a string for a scalar field, non-empty JSON text for
\* tags and agenda, a non-empty file for image), leaves every other field of
\* the event alone, and returns the record as stored.
C9_ReplacesFieldsProvided ==
    [][\A r \in Reqs :
        PutSucceeds(r) =>
            /\ \A k \in UpdatableKeys :
                  Event'[req[r].event][k] =
                      IF Provided(req[r].form, k) THEN Sent(r, k)
                      ELSE Event[req[r].event][k]
            /\ PutFrame(r)]_vars

C9_Witness ==
    \E r \in Reqs :
        /\ req[r].kind = "PUT" /\ req[r].res.status = 200
        /\ DOMAIN req[r].form = {"title"}
        /\ Event[req[r].event]["title"] = r
        /\ Event[req[r].event]["venue"] = "v0"
        /\ req[r].res.event = Event[req[r].event]

\* C10: of two PUTs to one event the one whose update runs last decides every
\* field it sends; each answers 200 whatever the other has written.
C10_LastWriterWins ==
    [][\A r, q \in Reqs :
        ( /\ r # q /\ req[q].kind = "PUT" /\ req[r].kind = "PUT"
          /\ Moves(r, "update", "done") /\ Quiet(r) )
        => /\ req'[r].res.status = 200
           /\ \A k \in DOMAIN req[r].updateData :
                 Event'[req[r].event][k] = req[r].updateData[k]
           /\ req'[q] = req[q]]_vars

C10_Witness ==
    \E r, q \in Reqs :
        /\ req[r].kind = "PUT" /\ req[r].res.status = 200
        /\ req[q].kind = "PUT" /\ req[q].res.status = 200
        /\ req[r].event = req[q].event
        /\ req[r].res.event["title"] = "r2"
        /\ req[q].res.event["title"] = "r1"
        /\ Event[req[r].event]["title"] = "r1"

----------------------------------------------------------------------------
(* Failures *)

\* the step is one in which request r caught a thrown value
Throws(r) == req[r].caught = NoError /\ req'[r].caught # NoError

\* the message of an Error names a connection failure
NamesConnection(e) ==
    e.isError /\ \E i \in DOMAIN e.message : e.message[i] \in {"connection", "ECONNREFUSED"}

GenericMessage(kind) ==
    CASE kind = "GET" -> "An unexpected error occurred while fetching the event"
      [] kind = "DELETE" -> "An unexpected error occurred while deleting the event"
      [] kind = "PUT" -> "An unexpected error occurred while updating the event"
      [] OTHER -> ""

C12_UnavailableIs503 ==
    \A r \in Reqs :
        NamesConnection(req[r].caught) => req[r].res.status = 503

\* C13: two runs of one handler that caught values of the same class and the
\* same connection/non-connection kind, whatever the values' message and
\* fields, return the same status and body.
C13_ResponseIgnoresExceptionContent ==
    \A r, q \in Reqs :
        ( /\ req[r].kind = req[q].kind
          /\ req[r].caught # NoError /\ req[q].caught # NoError
          /\ req[r].caught.isError = req[q].caught.isError
          /\ req[r].caught.name = req[q].caught.name
          /\ NamesConnection(req[r].caught) = NamesConnection(req[q].caught) )
        => req[r].res = req[q].res

\* C14: a PUT whose image upload fails answers the generic 500 and leaves the
\* Event collection as it was.
C14_UploadFailureIsGeneric500 ==
    [][\A r \in Reqs :
          (Moves(r, "upload", "done") /\ Throws(r)) =>
              /\ req'[r].res = Response(500, GenericMessage("PUT"))
              /\ Event' = Event]_vars

\* C15: every count query of GET /events/bookings records, for its event, the
\* number of bookings the store holds for that event at that moment; the 200
\* response reports exactly the recorded counts for the events listed; no step
\* of the handler changes the Event or the Booking collection, and no stored
\* event has a bookedSpots field.
C15_BookedSpotsIsCountAtQueryTime ==
    [][\A r \in Reqs :
          (req'[r].kind = "BOOKINGS" /\ req'[r] # req[r]) =>
              /\ Event' = Event /\ Booking' = Booking
              /\ \A e \in DOMAIN Event : "bookedSpots" \notin DOMAIN Event[e]
              /\ \A id \in DOMAIN req'[r].bookedSpots \ DOMAIN req[r].bookedSpots :
                    req'[r].bookedSpots[id] = Booking[id]
              /\ \A id \in DOMAIN req[r].bookedSpots :
                    req'[r].bookedSpots[id] = req[r].bookedSpots[id]
              /\ req'[r].res.status = 200 =>
                    LET listed == req'[r].res.events IN
                    /\ Len(listed) = Len(req'[r].events)
                    /\ \A i \in DOMAIN listed :
                          /\ listed[i]["_id"] = req'[r].events[i]["_id"]
                          /\ listed[i]["bookedSpots"] = req'[r].bookedSpots[listed[i]["_id"]]]_vars

\* a listing of both events whose counts were taken at different moments: one
\* event is reported with bookings although it has since been deleted with them,
\* the other with fewer bookings than it has by now
C15_Witness ==
    \E r \in Reqs :
        /\ req[r].kind = "BOOKINGS" /\ req[r].res.status = 200
        /\ Len(req[r].res.events) = 2
        /\ \E i, j \in DOMAIN req[r].res.events :
              /\ req[r].res.events[i]["bookedSpots"] > 0
              /\ req[r].res.events[i]["_id"] \notin DOMAIN Event
              /\ Booking[req[r].res.events[i]["_id"]] = 0
              /\ req[r].res.events[j]["bookedSpots"] < Booking[req[r].res.events[j]["_id"]]

----------------------------------------------------------------------------
(* The connection cache *)

InFlight == {k \in DOMAIN connects : connects[k] = "pending"}
Live == {k \in DOMAIN connects : connects[k] = "fulfilled"}

\* the step is a call of connectDB by c
Calls(c) == call[c].pc # "await" /\ call'[c] # call[c]

\* C16: at most one call of mongoose.connect is pending at any time and at most
\* one ever succeeds; a call made while one is pending starts none and awaits
\* the pending one; every caller that returned holds the cached connection; once
\* a connection is cached, no step replaces it and no call starts an establishment.
C16_OneEstablishmentOneConnection ==
    /\ [](/\ Cardinality(InFlight) <= 1
          /\ Cardinality(Live) <= 1
          /\ \A c \in Callers :
                call[c].pc = "returned" => call[c].conn \in Live /\ call[c].conn = cached.conn)
    /\ [][/\ \A c \in Callers :
                (Calls(c) /\ InFlight # {}) =>
                    /\ connects' = connects
                    /\ call'[c].pc = "await" /\ call'[c].promise \in InFlight
          /\ cached.conn # 0 =>
                /\ cached'.conn = cached.conn
                /\ Len(connects') = Len(connects)
                /\ \A c \in Callers : Calls(c) => call'[c].pc = "returned"]_vars

\* all three callers hold the one connection, made by the second establishment
\* after the first had failed
C16_Witness ==
    /\ Len(connects) = 2 /\ connects[1] = "rejected" /\ connects[2] = "fulfilled"
    /\ cached.conn = 2
    /\ \A c \in Callers : call[c].pc = "returned" /\ call[c].conn = 2

\* the promise c awaits has been rejected
AwaitsFailed(c) == call[c].pc = "await" /\ connects[call[c].promise] = "rejected"

\* C17: when an establishment fails, every caller awaiting it gets the failure;
\* the caller's catch clears the cached promise and records no connection, so
\* by the time a call can be made the cache holds no failed promise, and the
\* call starts or joins a pending establishment; once an establishment has
\* succeeded, every call returns its connection.
C17_FailureIsDeliveredAndCleared ==
    /\ \A c \in Callers : AwaitsFailed(c) ~> (call[c].pc = "threw")
    /\ []((\A c \in Callers : ~reactionQueued(c)) =>
              (cached.promise = 0 \/ connects[cached.promise] # "rejected"))
    /\ [][\A c \in Callers :
             /\ (AwaitsFailed(c) /\ call'[c] # call[c]) =>
                   /\ call'[c].pc = "threw"
                   /\ cached'.promise = 0 /\ cached'.conn = 0
             /\ (Calls(c) /\ Live = {}) =>
                   /\ call'[c].pc = "await"
                   /\ connects'[call'[c].promise] = "pending"
                   /\ cached'.promise = call'[c].promise
             /\ (Calls(c) /\ Live # {}) =>
                   call'[c].pc = "returned" /\ call'[c].conn \in Live]_vars

\* two callers got the failure of the first establishment; a call made after
\* it started a second one, which succeeded, and returned its connection
C17_Witness ==
    /\ connects = <<"rejected", "fulfilled">>
    /\ \E c, d, e \in Callers :
          /\ c # d
          /\ call[c].pc = "threw" /\ call[c].promise = 1
          /\ call[d].pc = "threw" /\ call[d].promise = 1
          /\ call[e].pc = "returned" /\ call[e].conn = 2

----------------------------------------------------------------------------
(* Pagination *)

\* the least number of pages of p items that hold n items
PagesFor(n, p) == CHOOSE k \in 0..n : k * p >= n /\ \A j \in 0..(k - 1) : j * p < n

\* the events page k shows
ShownOn(pg, k) == currentEvents([pg EXCEPT !.currentPage = k])

RECURSIVE Concat(_, _, _)
\* the pages from k to last, one after the other
Concat(pg, k, last) ==
    IF k > last THEN <<>> ELSE ShownOn(pg, k) \o Concat(pg, k + 1, last)

\* C18: once a page has loaded its N events, with P = 6 on the home page and
\* P = 10 on the management page, totalPages is the ceiling of N/P; page k of
\* 1..totalPages shows the events at 0-based positions (k-1)P .. min(kP, N)-1
\* in list order; the pages one after the other are the list; as long as nothing
\* was deleted the page shown is one of them, or the empty page 1 of an empty
\* list.
C18_PagesPartitionTheList ==
    page.data = "events" =>
        LET N == Len(page.events)
            P == IF page.path = "/" THEN 6 ELSE 10
        IN  /\ totalPages(page) = PagesFor(N, P)
            /\ \A k \in 1..totalPages(page) :
                  /\ Len(ShownOn(page, k)) = Min(k * P, N) - (k - 1) * P
                  /\ \A i \in DOMAIN ShownOn(page, k) :
                        ShownOn(page, k)[i] = page.events[(k - 1) * P + i]
            /\ Concat(page, 1, totalPages(page)) = page.events
            /\ page.pressed = 0 => page.currentPage \in 1..Max(1, totalPages(page))
            /\ N = 0 => currentEvents(page) = <<>>

\* the home page shows the fourth, partly filled page of 20 events
C18_Witness ==
    /\ page.path = "/" /\ page.data = "events"
    /\ Len(page.events) = 20 /\ page.currentPage = 4
    /\ currentEvents(page) = <<19, 20>>

----------------------------------------------------------------------------
(* The two delete steps *)

----------------------------------------------------------------------------
(* Slugs *)

\* C20: in every state reached by any interleaving of GET, PUT, DELETE and
\* GET /events/bookings, no two stored events have the same slug, and every
\* stored event has the slug it had at the start, whatever was edited.
C20_SlugsStayUnique ==
    /\ \A e, f \in DOMAIN Event : Event[e].slug = Event[f].slug => e = f
    /\ \A e \in DOMAIN Event :
          /\ Event[e].slug = EventSlug(e)
          /\ findOne(Event, EventSlug(e)) = e

\* both events have had their titles edited by successful PUTs
C20_Witness ==
    /\ \A e \in EventIds : e \in DOMAIN Event /\ Event[e].title # StoredEvent(e).title
    /\ \A r \in Reqs : req[r].kind = "PUT" /\ req[r].res.status = 200

----------------------------------------------------------------------------
(* Image constraints *)

MimeIsImage(mime) == mime \in {"image/png", "image/jpeg"}

\* the file is over 5MB or is not of an image type
BadImage(file) ==
    file.type = "file" /\ (file.size > 5 * 1024 * 1024 \/ ~MimeIsImage(file.mime))

\* C21: a PUT whose image file is larger than 5MB or not of an image MIME type
\* is rejected, and no URL of an upload made for it is stored on an event.
C21_ApiRejectsBadImage ==
    \A r \in Reqs :
        (req[r].kind = "PUT" /\ BadImage(formGet(req[r].form, "image"))) =>
            /\ req[r].res.status # 200
            /\ \A e \in DOMAIN Event : Event[e].image # secureUrl(r)

----------------------------------------------------------------------------
(* The forms *)

\* the file may become the pending upload: an image type and at most 5MB
ValidImage(file) == startsWith(file.mime, "image/") /\ file.size <= 5 * 1024 * 1024

\* C22: in the create form and in the edit form the pending upload (imageFile)
\* is only ever a file of an image type of at most 5MB, and a submission never
\* carries a file that fails either check.
C22_OnlyValidImagePending ==
    /\ ui.imageFile # NoFile => ValidImage(ui.imageFile)
    /\ formGet(ui.request.body, "image") # NoFile =>
           ValidImage(formGet(ui.request.body, "image"))

\* the user's calendar day
Today == "day2"

\* what the create form is to require of a submission
CreateValid(u) ==
    /\ \A k \in TextKeys : ~trimsToEmpty(u.formData[k])
    /\ \A k \in ChoiceKeys : u.formData[k] # ""
    /\ u.imageFile # NoFile
    /\ \A k \in ListKeys : Len(u.formData[k]) > 0
    /\ dayNumber(u.formData["date"]) >= dayNumber(Today)

\* C23: when the create form is submitted, POST /api/events is sent only if every
\* required text field is non-blank, date, time and mode are set, an image is
\* selected, there is a tag and an agenda item and the date is not in the past;
\* otherwise no request is sent, submitting stays false and an error
\* notification is shown.
C23_CreateSendsOnlyValid ==
    [][(handleSubmit /\ ui.which = "create") =>
          IF CreateValid(ui)
          THEN ui'.request.method = "POST" /\ ui'.submitting
          ELSE /\ ui'.request = NoRequest
               /\ ~ui'.submitting
               /\ ui'.notification.type = "error"
               /\ ui'.notification # ui.notification]_vars

\* the redirects to the events list that are scheduled
redirects(u) == Len(SelectSeq(u.timers, LAMBDA t : t.kind = "redirect"))

\* the form on the screen leaves the submitting state
Ends == ui.submitting /\ ~ui'.submitting /\ ui'.which = ui.which

\* what a step of a form does about a submission
EndsWell ==
    /\ Ends =>
           /\ ui'.notification.type \in {"success", "error"}
           /\ ui'.shown = ui.shown + 1
           /\ ui'.notification.id = ui'.shown
           /\ (redirects(ui') = redirects(ui) + 1) <=> (ui'.notification.type = "success")
           /\ redirects(ui') \in {redirects(ui), redirects(ui) + 1}
           /\ ui'.notification.type = "error" =>
                  /\ ui'.formData = ui.formData
                  /\ ui'.imageFile = ui.imageFile
    /\ (redirects(ui') > redirects(ui) /\ ui'.orphans = ui.orphans) => Ends

\* C25: in the create and edit forms every submission that enters the submitting
\* state leaves it; when the form leaves it, one notification has been set,
\* success or error, the redirect to the events list has been scheduled if and
\* only if it is success, and on error the form's field values are unchanged; no
\* other step of a form on the screen schedules a redirect.
C25_SubmissionEnds ==
    /\ ui.submitting ~> ~ui.submitting
    /\ [][EndsWell]_vars

\* a submission whose fetch threw has ended in an error notification and the
\* form is as the user filled it in
C25_Witness ==
    /\ ui.which = "create"
    /\ ~ui.submitting
    /\ ui.notification.type = "error"
    /\ ui.notification.message = "Failed to fetch"
    /\ ui.formData = FilledForm("day3")
    /\ redirects(ui) = 0

----------------------------------------------------------------------------
(* Notifications *)

\* the management page takes its notification off the screen
PageDismisses ==
    page.notification # "null" /\ page'.notification = "null" /\ ~page'.loading

\* a form takes its notification off the screen
FormDismisses ==
    ui.notification # NoNotification /\ ui'.notification = NoNotification
        /\ ui'.which = ui.which

\* C24: a notification is taken off the screen only by the timer that was
\* started for it, when its delay (3s on the management page, 5s in the forms)
\* has run out, never by the timer of an earlier notification.
C24_DismissedByOwnTimer ==
    [][/\ PageDismisses => (page.timers # <<>> /\ Head(page.timers) = page.shown)
       /\ FormDismisses =>
              \E i \in 1..Len(ui.timers) :
                  /\ ui.timers[i] = [kind |-> "hide", delay |-> 5000, id |-> ui.notification.id]
                  /\ ui'.timers = without(ui.timers, i)]_vars

----------------------------------------------------------------------------
(* Deleting on the management page *)

\* C26: on the management page the displayed list never contains an event whose
\* DELETE request succeeded, also when delete requests overlap in time.
C26_DeletedStayGone ==
    \A i \in 1..Len(page.events) : page.events[i] \notin page.deleted

\* the management page has loaded its list, and no delete overlapped another or
\* is still awaited
Settled ==
    /\ page.path = "/events" /\ page.data = "events"
    /\ ~page.overlapped /\ page.deletes = <<>>

\* a delete that was cancelled in the confirm dialog, or whose request failed
DeleteFalls ==
    \/ page'.pressed = page.pressed + 1 /\ page'.deletes = page.deletes
    \/ Len(page'.deletes) < Len(page.deletes) /\ page'.notificationType = "error"

\* a page change made through the pagination control
PageChange == handlePrevious \/ handleNext

\* C29: on the management page, after page changes made through the pagination
\* control and successful deletes that do not overlap, totalPages is
\* ceil(events.length / 10) and 1 <= currentPage <= max(1, totalPages), so the
\* page shown is empty only when the list is empty; the pagination control
\* requests pages in 1..totalPages only and is not rendered when totalPages <= 1;
\* a failed or cancelled delete changes none of events, totalPages, currentPage.
C29_PaginationAfterDeletes ==
    /\ [](Settled =>
            /\ page.totalPages = MathCeil(Len(page.events), 10)
            /\ 1 <= page.currentPage
            /\ page.currentPage <= Max(1, page.totalPages)
            /\ Len(currentEvents(page)) = 0 => Len(page.events) = 0
            /\ page.totalPages <= 1 => ~paginationShown(page))
    /\ [][/\ (PageChange /\ page.path = "/events") => page'.currentPage \in 1..page.totalPages
          /\ DeleteFalls =>
                 /\ page'.events = page.events
                 /\ page'.totalPages = page.totalPages
                 /\ page'.currentPage = page.currentPage]_vars

----------------------------------------------------------------------------
(* PUT and DELETE on the same slug *)

\* the step belongs to the PUT request r
PutStep(r) == req'[r].kind = "PUT" /\ req'[r] # req[r]

\* PUT's update step finds that the event it had found is gone
UpdatesDeleted(r) ==
    /\ req[r].kind = "PUT" /\ Moves(r, "update", "done") /\ Quiet(r)
    /\ req[r].event \notin DOMAIN Event

\* C27: no step of a PUT adds an event to the store, whatever DELETE does in
\* between; when the event has been deleted between PUT's existence check and
\* its update step, PUT answers 500 "Failed to update event", after the upload
\* of an attached image has been made.
C27_PutNeverCreates ==
    [][\A r \in Reqs :
        /\ PutStep(r) => DOMAIN Event' \subseteq DOMAIN Event
        /\ UpdatesDeleted(r) =>
               /\ req'[r].res.status = 500
               /\ req'[r].res.error = "Failed to update event"
               /\ Event' = Event
               /\ FileAttached(req[r].form) => req'[r].uploads = 1]_vars

\* a PUT with an image found its event, uploaded the image, and answered 500
\* because a DELETE removed the event before the update
C27_Witness ==
    \E r, q \in Reqs :
        /\ req[r].kind = "PUT" /\ req[r].pc = "done"
        /\ req[r].event \in EventIds \ DOMAIN Event
        /\ req[r].uploads = 1
        /\ req[r].res.status = 500 /\ req[r].res.error = "Failed to update event"
        /\ Deleted(q) /\ req[q].event = req[r].event

----------------------------------------------------------------------------
(* Two DELETE requests for one event *)

\* the DELETE request r has removed the bookings of event id and not failed
Removed(rq, r, id) ==
    /\ rq[r].kind = "DELETE" /\ rq[r].event = id /\ rq[r].caught = NoError
    /\ rq[r].pc = "deleteEvent" \/ (rq[r].pc = "done" /\ rq[r].res.status = 200)

\* the bookings of event id that the DELETE requests have counted as deleted
Counted(rq, id) ==
    (IF Removed(rq, "r1", id) THEN rq["r1"].res.deletedBookingsCount ELSE 0)
    + (IF Removed(rq, "r2", id) THEN rq["r2"].res.deletedBookingsCount ELSE 0)

\* both requests are DELETEs that found event id and have answered 200
BothDeleted(id) == \A r \in Reqs : Deleted(r) /\ req[r].event = id

\* C28: two DELETE requests for one slug can both pass the existence check, and
\* then both answer 200. Every booking of the event is removed and counted by
\* exactly one of them: but for a booking being created or a DELETE failing, no
\* step changes the sum of the bookings stored and the bookings counted, so the
\* two counts sum to the number of bookings the event had; bookings only appear
\* by creation, and once both have answered the event is not in the store.
C28_OverlappingDeletes ==
    [][\A id \in EventIds :
        /\ (req' # req /\ \A r \in Reqs : ~Throws(r)) =>
               Booking'[id] + Counted(req', id) = Booking[id] + Counted(req, id)
        /\ Booking'[id] > Booking[id] => req' = req
        /\ \A r \in Reqs :
               ( /\ req[r].kind = "DELETE" /\ req[r].event = id
                 /\ Moves(r, "deleteEvent", "done") /\ Quiet(r) )
               => /\ req'[r].res.status = 200
                  /\ id \notin DOMAIN Event'
        /\ BothDeleted(id)' => id \notin DOMAIN Event']_vars

\* two DELETE requests found the same event and both answered 200; between them
\* they counted the two bookings it had, and neither event nor booking is left
C28_Witness ==
    \E id \in EventIds :
        /\ BothDeleted(id)
        /\ req["r1"].res.deletedBookingsCount + req["r2"].res.deletedBookingsCount = MaxBookings
        /\ id \notin DOMAIN Event
        /\ Booking[id] = 0

----------------------------------------------------------------------------
(* What DELETE leaves alone *)

\* the step belongs to the DELETE request r
DeleteStep(r) == req'[r].kind = "DELETE" /\ req'[r] # req[r]

\* C30: no step of a DELETE, whether the request ends in 200, 400, 404 or a
\* failure part-way, changes an event other than the one it found under its
\* slug, or the bookings of another event; a DELETE that found none changes
\* nothing.
C30_DeleteTouchesTargetOnly ==
    [][\A r \in Reqs :
        DeleteStep(r) =>
            LET target == req'[r].event IN
            /\ (ArrivesAt(r, "DELETE") /\ target # "null") =>
                   Event[target].slug = Canon(req'[r].slug.value)
            /\ IF target = "null"
               THEN Event' = Event /\ Booking' = Booking
               ELSE /\ \A e \in DOMAIN Event \ {target} :
                           e \in DOMAIN Event' /\ Event'[e] = Event[e]
                    /\ DOMAIN Event' \subseteq DOMAIN Event
                    /\ \A e \in EventIds \ {target} : Booking'[e] = Booking[e]]_vars

\* a DELETE has removed one event and its bookings; the other event and its
\* booking are as they were, also after a second DELETE failed part-way
C30_Witness ==
    \E r, q \in Reqs : \E id, other \in EventIds :
        /\ id # other
        /\ Deleted(r) /\ req[r].event = id /\ req[r].res.deletedBookingsCount = 1
        /\ req[q].kind = "DELETE" /\ req[q].pc = "done" /\ req[q].caught # NoError
        /\ DOMAIN Event = {other} /\ Event[other] = StoredEvent(other)
        /\ Booking[other] = 1

====
